---- MODULE Spec2Model ----
(***************************************************************************)
(* Model of the heading numbering engine (src/src/numbering.ts) and of the *)
(* compact front matter settings codec (src/src/frontMatter.ts).           *)
(*                                                                         *)
(* A document is a sequence of lines and a line is a sequence of one       *)
(* character strings, so that the prefix scanner's regular expressions,    *)
(* the replacement texts and the directive string are modelled character   *)
(* by character.                                                           *)
(***************************************************************************)
EXTENDS Integers, Sequences, FiniteSets, TLC

VARIABLES doc, headings, settings, frontmatter, log

vars == <<doc, headings, settings, frontmatter, log>>

(***************************************************************************)
(* Bounds of the model.                                                    *)
(***************************************************************************)
MaxHeadings == 3

(***************************************************************************)
(* Characters and strings.                                                 *)
(***************************************************************************)
DigitChars == <<"0", "1", "2", "3", "4", "5", "6", "7", "8", "9">>

UpperChars == <<"A", "B", "C", "D", "E", "F", "G", "H", "I", "J", "K", "L", "M",
                "N", "O", "P", "Q", "R", "S", "T", "U", "V", "W", "X", "Y", "Z">>

Range(s) == {s[i] : i \in DOMAIN s}

DigitSet == Range(DigitChars)

UpperSet == Range(UpperChars)

WhitespaceChars == {" ", "\t"}

IsDigit(c) == c \in DigitSet

IsUpper(c) == c \in UpperSet

IsWhitespace(c) == c \in WhitespaceChars

IsSeparatorChar(c) == c \in {":", ".", "-"}

CharAt(s, i) == IF i \in DOMAIN s THEN s[i] ELSE "<eol>"

Drop(s, n) == SubSeq(s, n + 1, Len(s))

Take(s, n) == SubSeq(s, 1, n)

StartsWith(s, p) == Len(p) <= Len(s) /\ Take(s, Len(p)) = p

EndsWith(s, p) == Len(p) <= Len(s) /\ Drop(s, Len(s) - Len(p)) = p

\* First index at or after i whose character is not in the set C.
RECURSIVE RunEnd(_, _, _)
RunEnd(s, i, C) == IF i \in DOMAIN s /\ s[i] \in C THEN RunEnd(s, i + 1, C) ELSE i

TrimLeft(s) == Drop(s, RunEnd(s, 1, WhitespaceChars) - 1)

RECURSIVE TrimRight(_)
TrimRight(s) ==
    IF s # <<>> /\ IsWhitespace(s[Len(s)]) THEN TrimRight(Take(s, Len(s) - 1)) ELSE s

Trim(s) == TrimRight(TrimLeft(s))

\* Number.prototype.toString for a natural number.
RECURSIVE NatToString(_)
NatToString(n) ==
    IF n < 10 THEN <<DigitChars[n + 1]>>
    ELSE NatToString(n \div 10) \o <<DigitChars[(n % 10) + 1]>>

(***************************************************************************)
(* Heading prefix scanner.                                                 *)
(***************************************************************************)
\* The undefined result of makeHeadingHashString: no marker run is this string.
Undefined == <<"undefined">>

\* The undefined result of getHeadingPrefixRange: no range ends here.
NoRange == -1

\* End of the match of /^\s{0,4}#+/ on the line, 0 when there is no match.
HashMatchEnd(line) ==
    LET ws == RunEnd(line, 1, WhitespaceChars)
        he == RunEnd(line, ws, {"#"})
    IN  IF ws - 1 <= 4 /\ he > ws THEN he - 1 ELSE 0

makeHeadingHashString(line) ==
    IF line = <<>> THEN Undefined
    ELSE IF HashMatchEnd(line) = 0 THEN Undefined
    ELSE TrimLeft(Take(line, HashMatchEnd(line)))

\* The tail of the prefix expression, ( )+ : 0 when it fails at q.
MatchSpaces(line, q) ==
    IF CharAt(line, q) = " " THEN RunEnd(line, q, {" "}) - 1 ELSE 0

\* [:.-]?( )+
MatchPunct(line, q) ==
    IF IsSeparatorChar(CharAt(line, q)) /\ MatchSpaces(line, q + 1) # 0
    THEN MatchSpaces(line, q + 1)
    ELSE MatchSpaces(line, q)

\* ([0-9]+|[A-Z])?[:.-]?( )+
MatchLastToken(line, q) ==
    LET c == CharAt(line, q)
        viaToken == IF IsDigit(c) THEN MatchPunct(line, RunEnd(line, q, DigitSet))
                    ELSE IF IsUpper(c) THEN MatchPunct(line, q + 1)
                    ELSE 0
    IN  IF viaToken # 0 THEN viaToken ELSE MatchPunct(line, q)

\* ([0-9]+\.|[A-Z]\.)* followed by the rest, greedy with backtracking.
RECURSIVE MatchGroups(_, _)
MatchGroups(line, q) ==
    LET c == CharAt(line, q)
        de == RunEnd(line, q, DigitSet)
        groupEnd == IF IsDigit(c) /\ CharAt(line, de) = "." THEN de + 1
                    ELSE IF IsUpper(c) /\ CharAt(line, q + 1) = "." THEN q + 2
                    ELSE 0
        more == IF groupEnd # 0 THEN MatchGroups(line, groupEnd) ELSE 0
    IN  IF more # 0 THEN more ELSE MatchLastToken(line, q)

\* Length of the match of
\* /^\s{0,4}#+( )?([0-9]+\.|[A-Z]\.)*([0-9]+|[A-Z])?[:.-]?( )+/ , 0 without one.
PrefixMatchLength(line) ==
    LET h == HashMatchEnd(line)
        withSpace == IF CharAt(line, h + 1) = " " THEN MatchGroups(line, h + 2) ELSE 0
    IN  IF h = 0 THEN 0
        ELSE IF withSpace # 0 THEN withSpace
        ELSE MatchGroups(line, h + 1)

\* The range is on the heading's own line from ch 0; the result is its end.
getHeadingPrefixRange(line) ==
    IF line = <<>> THEN NoRange ELSE PrefixMatchLength(line)

(***************************************************************************)
(* Numbering tokens.                                                       *)
(***************************************************************************)
\* A NumberingToken (number | string) is a tagged value: a number, or a letter
\* given by its place in the alphabet (String.fromCharCode(charCodeAt(0) + 1)
\* is the next place).
NumberToken(n) == [kind |-> "number", value |-> n]

LetterToken(i) == [kind |-> "string", value |-> i]

zerothNumberingTokenInStyle(style) ==
    IF style = "1" THEN NumberToken(0)
    ELSE IF style = "A" THEN LetterToken(26)
    ELSE NumberToken(0)

\* Mutant: the first token of a level is the zeroth one.
firstNumberingTokenInStyleZero(style) == zerothNumberingTokenInStyle(style)

firstNumberingTokenInStyle(style) ==
    IF style = "1" THEN NumberToken(1)
    ELSE IF style = "A" THEN LetterToken(1)
    ELSE NumberToken(1)

nextNumberingToken(t) ==
    IF t.kind = "number" THEN NumberToken(t.value + 1)
    ELSE IF t.value = 26 THEN LetterToken(1)
    ELSE LetterToken(t.value + 1)

TokenToString(t) ==
    IF t.kind = "number" THEN NatToString(t.value) ELSE <<UpperChars[t.value]>>

RECURSIVE makeNumberingString(_)
makeNumberingString(numberingStack) ==
    IF numberingStack = <<>> THEN <<>>
    ELSE LET n == Len(numberingStack)
         IN  makeNumberingString(Take(numberingStack, n - 1))
                 \o (IF n = 1 THEN <<" ">> ELSE <<".">>)
                 \o TokenToString(numberingStack[n])

(***************************************************************************)
(* The editor: one heading per line of doc, heading i on line i.           *)
(***************************************************************************)
getLine(d, n) == IF n \in DOMAIN d THEN d[n] ELSE <<>>

\* editor.getRange from ch 0 to ch toCh of one line.
getRange(d, n, toCh) == Take(getLine(d, n), toCh)

\* Replace a range, but only if there is a change in text.
replaceRangeSafely(d, changes, n, toCh, text) ==
    IF getRange(d, n, toCh) # text
    THEN Append(changes, [text |-> text, line |-> n, toCh |-> toCh])
    ELSE changes

\* editor.transaction: every change of the numbering operations is on its own
\* heading line, from ch 0.
RECURSIVE transaction(_, _)
transaction(d, changes) ==
    IF changes = <<>> THEN d
    ELSE LET c == Head(changes)
         IN  transaction([d EXCEPT ![c.line] = c.text \o Drop(d[c.line], c.toCh)],
                         Tail(changes))

(***************************************************************************)
(* updateHeadingNumbering.                                                 *)
(***************************************************************************)
Pop(stack) == IF stack = <<>> THEN <<>> ELSE Take(stack, Len(stack) - 1)

\* const x = numberingStack.pop(); if (x !== undefined) push(nextNumberingToken(x))
PopAndPushNext(stack) ==
    IF stack = <<>> THEN <<>>
    ELSE Append(Pop(stack), nextNumberingToken(stack[Len(stack)]))

RECURSIVE PopTimes(_, _)
PopTimes(stack, n) == IF n <= 0 THEN stack ELSE PopTimes(Pop(stack), n - 1)

RECURSIVE PushTimes(_, _, _)
PushTimes(stack, t, n) == IF n <= 0 THEN stack ELSE PushTimes(Append(stack, t), t, n - 1)

\* Mutant: coming back up, the levels left behind are not popped.
AdjustStackKeepsDepth(stack, previousLevel, level, s) ==
    IF level <= previousLevel THEN PopAndPushNext(stack)
    ELSE PushTimes(stack, firstNumberingTokenInStyle(s.styleLevelOther),
                   level - previousLevel)

\* Adjust numbering stack
AdjustStack(stack, previousLevel, level, s) ==
    IF level = previousLevel THEN PopAndPushNext(stack)
    ELSE IF level < previousLevel
    THEN PopAndPushNext(PopTimes(stack, previousLevel - level))
    ELSE PushTimes(stack, firstNumberingTokenInStyle(s.styleLevelOther),
                   level - previousLevel)

IsExcluded(level, s) == (s.skipTopLevel /\ level = 1) \/ level > s.maxLevel

\* The state of one run of the loop over the headings.
InitialRun(s) ==
    [numberingStack |-> <<zerothNumberingTokenInStyle(s.styleLevel1)>>,
     previousLevel |-> IF s.skipTopLevel THEN 2 ELSE 1,
     changes |-> <<>>,
     steps |-> <<>>,
     returned |-> FALSE]

StepRecord(kind, run, text) ==
    [kind |-> kind, numberingStack |-> run.numberingStack,
     previousLevel |-> run.previousLevel, text |-> text]

\* Mutant: the excluded heading's level is taken as the previous level.
ExcludedStepSetsLevel(run, h, d, s) ==
    LET line == getLine(d, h.line)
        prefixRange == getHeadingPrefixRange(line)
        headingHashString == makeHeadingHashString(line)
        text == headingHashString \o <<" ">>
        moved == [run EXCEPT !.previousLevel = h.level]
    IN  IF prefixRange = NoRange \/ headingHashString = Undefined
        THEN [moved EXCEPT !.steps = Append(@, StepRecord("excluded", moved, <<>>))]
        ELSE [moved EXCEPT
                 !.changes = replaceRangeSafely(d, @, h.line, prefixRange, text),
                 !.steps = Append(@, StepRecord("excluded", moved, text))]

\* The branch of an excluded heading: its numbering is removed, the numbering
\* stack and previousLevel are left alone.
ExcludedStep(run, h, d, s) ==
    LET line == getLine(d, h.line)
        prefixRange == getHeadingPrefixRange(line)
        headingHashString == makeHeadingHashString(line)
        text == headingHashString \o <<" ">>
    IN  IF prefixRange = NoRange \/ headingHashString = Undefined
        THEN [run EXCEPT !.steps = Append(@, StepRecord("excluded", run, <<>>))]
        ELSE [run EXCEPT
                 !.changes = replaceRangeSafely(d, @, h.line, prefixRange, text),
                 !.steps = Append(@, StepRecord("excluded", run, text))]

\* The branch of a numbered heading.
NumberedStep(run, h, d, s) ==
    LET adjusted == [run EXCEPT
                        !.numberingStack =
                            AdjustStack(@, run.previousLevel, h.level, s),
                        !.previousLevel = h.level]
        line == getLine(d, h.line)
        prefixRange == getHeadingPrefixRange(line)
        headingHashString == makeHeadingHashString(line)
        prefixString == makeNumberingString(adjusted.numberingStack)
        text == headingHashString \o prefixString \o s.separator \o <<" ">>
    IN  IF h.level > s.maxLevel
        THEN [adjusted EXCEPT !.steps = Append(@, StepRecord("skipped", adjusted, <<>>))]
        ELSE IF prefixRange = NoRange \/ headingHashString = Undefined
        THEN [adjusted EXCEPT
                 !.returned = TRUE,
                 !.steps = Append(@, StepRecord("returned", adjusted, <<>>))]
        ELSE [adjusted EXCEPT
                 !.changes = replaceRangeSafely(d, @, h.line, prefixRange, text),
                 !.steps = Append(@, StepRecord("numbered", adjusted, text))]

UpdateStep(run, h, d, s) ==
    IF IsExcluded(h.level, s) THEN ExcludedStep(run, h, d, s)
    ELSE NumberedStep(run, h, d, s)

RECURSIVE UpdateLoop(_, _, _, _, _)
UpdateLoop(run, hs, i, d, s) ==
    IF i > Len(hs) \/ run.returned THEN run
    ELSE UpdateLoop(UpdateStep(run, hs[i], d, s), hs, i + 1, d, s)

RunUpdate(hs, d, s) == UpdateLoop(InitialRun(s), hs, 1, d, s)

(***************************************************************************)
(* removeHeadingNumbering.                                                 *)
(***************************************************************************)
RemoveStep(run, h, d) ==
    LET line == getLine(d, h.line)
        prefixRange == getHeadingPrefixRange(line)
        headingHashString == makeHeadingHashString(line)
        text == headingHashString \o <<" ">>
    IN  IF prefixRange = NoRange \/ headingHashString = Undefined
        THEN [run EXCEPT
                 !.returned = TRUE,
                 !.steps = Append(@, StepRecord("returned", run, <<>>))]
        ELSE [run EXCEPT
                 !.changes = replaceRangeSafely(d, @, h.line, prefixRange, text),
                 !.steps = Append(@, StepRecord("removed", run, text))]

RECURSIVE RemoveLoop(_, _, _, _)
RemoveLoop(run, hs, i, d) ==
    IF i > Len(hs) \/ run.returned THEN run
    ELSE RemoveLoop(RemoveStep(run, hs[i], d), hs, i + 1, d)

RunRemove(hs, d) ==
    RemoveLoop([numberingStack |-> <<>>, previousLevel |-> 0, changes |-> <<>>,
                steps |-> <<>>, returned |-> FALSE], hs, 1, d)

\* What one operation did: the document it ran on, the run of its loop, the
\* changes its transaction applied (none when it returned before it), and
\* whether it was the first operation on the document.
LogEntry(op, d, run, first) ==
    [op |-> op, before |-> d, run |-> run, first |-> first,
     applied |-> IF run.returned THEN <<>> ELSE run.changes]

(***************************************************************************)
(* The numbering specification: a document of heading lines, on which      *)
(* "add numbering" and "remove numbering" are run in any order.            *)
(***************************************************************************)
Levels == {1, 2, 3}

Styles == {"1", "A"}

Separators == {<<>>, <<".">>, <<":">>}

Hashes(level) == [i \in 1..level |-> "#"]

\* The text after the marker run: a plain body, and a body whose first two
\* words are numbers.
Bodies == {<<" ", "x">>, <<" ", "3", " ", "4", " ", "x">>}

\* A heading the metadata cache lists whose line does not start with a marker
\* run (the text line of an underlined heading).
UnmarkedLine == <<"x">>

HeadingLines(level) == {Hashes(level) \o b : b \in Bodies} \cup {UnmarkedLine}

NoFrontMatter == [present |-> FALSE]

NumberingSettings ==
    [skipTopLevel : BOOLEAN, firstLevel : {1}, maxLevel : {2, 3},
     styleLevel1 : Styles, styleLevelOther : Styles, auto : {FALSE},
     separator : Separators, contents : {<<>>}, startAt : {<<>>}]

\* Documents of up to MaxHeadings heading lines, at most one of which is not
\* the plain "markers, space, body" line.
PlainLine(level) == Hashes(level) \o <<" ", "x">>

PlainDoc(levels) == [i \in DOMAIN levels |-> PlainLine(levels[i])]

Documents(levels) ==
    {PlainDoc(levels)} \cup
    {[PlainDoc(levels) EXCEPT ![i] = l] :
        i \in DOMAIN levels, l \in UNION {HeadingLines(levels[j]) : j \in DOMAIN levels}}

Init ==
    /\ \E n \in 1..MaxHeadings :
          \E levels \in [1..n -> Levels] :
             /\ headings = [i \in 1..n |-> [level |-> levels[i], line |-> i]]
             /\ doc \in {d \in Documents(levels) :
                            \A i \in 1..n : d[i] \in HeadingLines(levels[i])}
    /\ settings \in NumberingSettings
    /\ frontmatter = NoFrontMatter
    /\ log = <<>>

\* The log keeps the last two operations.
Logged(entry) == IF log = <<>> THEN <<entry>> ELSE <<log[Len(log)], entry>>

UpdateHeadingNumbering ==
    /\ LET run == RunUpdate(headings, doc, settings)
           entry == LogEntry("update", doc, run, log = <<>>)
       IN  /\ doc' = transaction(doc, entry.applied)
           /\ log' = Logged(entry)
    /\ UNCHANGED <<headings, settings, frontmatter>>

RemoveHeadingNumbering ==
    /\ LET run == RunRemove(headings, doc)
           entry == LogEntry("remove", doc, run, log = <<>>)
       IN  /\ doc' = transaction(doc, entry.applied)
           /\ log' = Logged(entry)
    /\ UNCHANGED <<headings, settings, frontmatter>>

Next == UpdateHeadingNumbering \/ RemoveHeadingNumbering

Spec == Init /\ [][Next]_vars

\* "Add numbering" alone, run again and again.
SpecUpdate == Init /\ [][UpdateHeadingNumbering]_vars

(***************************************************************************)
(* Properties of the numbering operations.                                 *)
(***************************************************************************)
LastEntry == log[Len(log)]

LevelsOf(hs) == [i \in DOMAIN hs |-> hs[i].level]

\* The sequence starts at level 1 and never deepens by more than one level.
WellNested(levels) ==
    /\ levels # <<>>
    /\ levels[1] = 1
    /\ \A i \in DOMAIN levels : i > 1 => levels[i] <= levels[i - 1] + 1

\* The outline number of heading i, from the nesting alone: the number of its
\* parent, then one more than the number of its earlier siblings.
ParentOf(levels, i) ==
    CHOOSE p \in 1..(i - 1) :
        /\ levels[p] = levels[i] - 1
        /\ \A q \in (p + 1)..(i - 1) : levels[q] # levels[i] - 1

RECURSIVE OutlineNumber(_, _)
OutlineNumber(levels, i) ==
    IF levels[i] = 1
    THEN <<Cardinality({j \in 1..i : levels[j] = 1})>>
    ELSE LET p == ParentOf(levels, i)
         IN  OutlineNumber(levels, p)
                 \o <<1 + Cardinality({j \in (p + 1)..(i - 1) : levels[j] = levels[i]})>>

RECURSIVE JoinWithDots(_)
JoinWithDots(ns) ==
    IF Len(ns) = 1 THEN NatToString(ns[1])
    ELSE JoinWithDots(Take(ns, Len(ns) - 1)) \o <<".">> \o NatToString(ns[Len(ns)])

OutlineSettings(s, levels) ==
    /\ s.styleLevel1 = "1"
    /\ s.styleLevelOther = "1"
    /\ ~s.skipTopLevel
    /\ \A i \in DOMAIN levels : levels[i] <= s.maxLevel

\* C1: with styles "1"/"1", no skipped top level, maxLevel at least every
\* level and a well nested heading sequence, the prefix computed for each
\* heading is its marker run, a space, its parent's number, '.', one more than
\* the number of its earlier siblings, then the separator and a space.
C1_OutlineNumbers ==
    (/\ log # <<>>
     /\ LastEntry.op = "update"
     /\ OutlineSettings(settings, LevelsOf(headings))
     /\ WellNested(LevelsOf(headings)))
    => \A i \in DOMAIN LastEntry.run.steps :
          LastEntry.run.steps[i].kind = "numbered"
          => LastEntry.run.steps[i].text =
                 Hashes(headings[i].level) \o <<" ">>
                     \o JoinWithDots(OutlineNumber(LevelsOf(headings), i))
                     \o settings.separator \o <<" ">>

\* A run over the levels 1, 2, 2 in which the second child is numbered.
C1_Witness ==
    /\ log # <<>>
    /\ LastEntry.op = "update"
    /\ OutlineSettings(settings, LevelsOf(headings))
    /\ LevelsOf(headings) = <<1, 2, 2>>
    /\ Len(LastEntry.run.steps) = Len(headings)
    /\ LastEntry.run.steps[Len(headings)].kind = "numbered"
    /\ LastEntry.run.steps[Len(headings)].text =
           <<"#", "#", " ", "1", ".", "2">> \o settings.separator \o <<" ">>

StartLevel(s) == IF s.skipTopLevel THEN 2 ELSE 1

\* C6 as stated: for a well nested heading sequence, after every heading the
\* numbering stack is level - startLevel + 1 long.
C6_StackLengthEveryHeading ==
    (/\ log # <<>>
     /\ LastEntry.op = "update"
     /\ WellNested(LevelsOf(headings)))
    => \A i \in DOMAIN LastEntry.run.steps :
          Len(LastEntry.run.steps[i].numberingStack) =
              headings[i].level - StartLevel(settings) + 1

\* C6 amended: for a well nested heading sequence, after every heading that is
\* not excluded the numbering stack is level - startLevel + 1 long.
C6_StackLengthNumberedHeading ==
    (/\ log # <<>>
     /\ LastEntry.op = "update"
     /\ WellNested(LevelsOf(headings)))
    => \A i \in DOMAIN LastEntry.run.steps :
          ~IsExcluded(headings[i].level, settings)
          => Len(LastEntry.run.steps[i].numberingStack) =
                 headings[i].level - StartLevel(settings) + 1

\* A run in which a heading below the first numbered level is numbered after
\* an excluded heading.
C6_Witness ==
    /\ log # <<>>
    /\ LastEntry.op = "update"
    /\ WellNested(LevelsOf(headings))
    /\ \E j, k \in DOMAIN LastEntry.run.steps :
          /\ j < k
          /\ LastEntry.run.steps[j].kind = "excluded"
          /\ LastEntry.run.steps[k].kind = "numbered"
          /\ headings[k].level > StartLevel(settings)
          /\ Len(LastEntry.run.steps[k].numberingStack) =
                 headings[k].level - StartLevel(settings) + 1

\* The headings that are not excluded, each still on its own line.
SelectNumbered(hs, s) == SelectSeq(hs, LAMBDA h : ~IsExcluded(h.level, s))

StateBefore(run, i, s) ==
    IF i = 1 THEN InitialRun(s) ELSE run.steps[i - 1]

\* C8: an excluded heading leaves numberingStack and previousLevel as they
\* were, and the headings that are not excluded get the stack and the prefix
\* they get when the excluded headings are taken out of the heading list.
C8_ExcludedHeadingsLeaveNumbering ==
    (log # <<>> /\ LastEntry.op = "update")
    => /\ \A i \in DOMAIN LastEntry.run.steps :
             IsExcluded(headings[i].level, settings)
             => /\ LastEntry.run.steps[i].numberingStack =
                       StateBefore(LastEntry.run, i, settings).numberingStack
                /\ LastEntry.run.steps[i].previousLevel =
                       StateBefore(LastEntry.run, i, settings).previousLevel
       /\ SelectSeq(LastEntry.run.steps, LAMBDA st : st.kind # "excluded")
              = RunUpdate(SelectNumbered(headings, settings),
                          LastEntry.before, settings).steps

\* A numbered heading, then an excluded one, then a numbered one.
C8_Witness ==
    /\ log # <<>>
    /\ LastEntry.op = "update"
    /\ \E i, j, k \in DOMAIN LastEntry.run.steps :
          /\ i < j /\ j < k
          /\ LastEntry.run.steps[i].kind = "numbered"
          /\ LastEntry.run.steps[j].kind = "excluded"
          /\ LastEntry.run.steps[j].text # <<>>
          /\ LastEntry.run.steps[k].kind = "numbered"

\* Both scans of the line succeed.
Recognized(line) ==
    makeHeadingHashString(line) # Undefined /\ getHeadingPrefixRange(line) # NoRange

\* The line with the text of its prefix range replaced.
Replaced(line, text) == text \o Drop(line, PrefixMatchLength(line))

\* C2: a second "add numbering" right after the first applies no change.
C2_SecondUpdateIsEmpty ==
    (/\ Len(log) > 1
     /\ log[1].op = "update"
     /\ log[Len(log)].op = "update")
    => log[Len(log)].applied = <<>>

\* C3: "remove numbering" right after "add numbering" leaves every heading the
\* first numbered with its marker run, one space, and the text that followed
\* the numbering.
C3_RemoveRestoresPrefix ==
    (/\ Len(log) > 1
     /\ log[1].op = "update"
     /\ ~log[1].run.returned
     /\ log[Len(log)].op = "remove")
    => \A i \in DOMAIN headings :
          log[1].run.steps[i].kind = "numbered"
          => doc[i] = Hashes(headings[i].level) \o <<" ">>
                          \o Drop(log[Len(log)].before[i], Len(log[1].run.steps[i].text))

\* C4: a heading whose scan fails is left as it is, and every other heading
\* still gets the replacement computed for it.
C4_UnrecognizedHeadingSkippedAlone ==
    log # <<>>
    => \A i \in DOMAIN headings :
          IF Recognized(LastEntry.before[i])
          THEN /\ i \in DOMAIN LastEntry.run.steps
               /\ LastEntry.run.steps[i].text # <<>>
               /\ doc[i] = Replaced(LastEntry.before[i], LastEntry.run.steps[i].text)
          ELSE doc[i] = LastEntry.before[i]

\* The text after the marker run and one space.
BodyOf(line, level) == Drop(line, level + 1)

HasBody(line, level) == StartsWith(line, Hashes(level) \o <<" ">>)

\* C10: the first "add numbering" on a document of "markers, space, body"
\* lines changes no body: a line is left as it was or is the computed prefix
\* followed by its body.
C10_BodyTextUnchanged ==
    (/\ log # <<>>
     /\ LastEntry.first
     /\ LastEntry.op = "update")
    => \A i \in DOMAIN headings :
          HasBody(LastEntry.before[i], headings[i].level)
          => \/ doc[i] = LastEntry.before[i]
             \/ /\ i \in DOMAIN LastEntry.run.steps
                /\ doc[i] = LastEntry.run.steps[i].text
                                \o BodyOf(LastEntry.before[i], headings[i].level)

(***************************************************************************)
(* updateTableOfContents.  Lines are numbered from 1; a text that ends in  *)
(* a line break is the sequence of its lines.                              *)
(***************************************************************************)
MaxLines == 3

TOC_LIST_ITEM_BULLET == <<"-">>

\* viewInfo.data.headings: the cached headings of the marked heading lines.
MetadataHeadings(d) ==
    LET IsHeading(n) == HashMatchEnd(d[n]) # 0
                            /\ CharAt(d[n], HashMatchEnd(d[n]) + 1) \in {" ", "<eol>"}
        marked == SelectSeq([n \in DOMAIN d |-> n], IsHeading)
    IN  [k \in DOMAIN marked |->
            [level |-> Len(makeHeadingHashString(d[marked[k]])),
             line |-> marked[k],
             heading |-> Trim(Drop(d[marked[k]], HashMatchEnd(d[marked[k]])))]]

doesContentsHaveValue(contents) == Len(contents) > 0

RECURSIVE IndexOfChar(_, _, _)
IndexOfChar(s, c, i) ==
    IF i > Len(s) THEN 0 ELSE IF s[i] = c THEN i ELSE IndexOfChar(s, c, i + 1)

cleanHeadingTextForToc(htext) ==
    IF IndexOfChar(htext, "^", 1) # 0
    THEN Trim(Take(htext, IndexOfChar(htext, "^", 1) - 1))
    ELSE Trim(htext)

createTocEntry(h, s) ==
    LET startLevel == IF s.skipTopLevel THEN 2 ELSE 1
        bulletIndent == [i \in 1..(h.level - startLevel) |-> "\t"]
        entryLink == <<"[", "[", "#">> \o h.heading \o <<"|">>
                         \o cleanHeadingTextForToc(h.heading) \o <<"]", "]">>
    IN  bulletIndent \o TOC_LIST_ITEM_BULLET \o <<" ">> \o entryLink

\* The loop over the headings: the last heading whose text ends with the
\* contents marker (0 for none) and the lines of tocBuilder.
RECURSIVE TocLoop(_, _, _, _)
TocLoop(hs, i, s, acc) ==
    IF i > Len(hs) THEN acc
    ELSE LET h == hs[i]
             found == IF EndsWith(h.heading, s.contents) THEN i ELSE acc.tocHeading
         IN  TocLoop(hs, i + 1, s,
                 IF IsExcluded(h.level, s)
                 THEN [acc EXCEPT !.tocHeading = found]
                 ELSE [tocHeading |-> found,
                       tocBuilder |-> Append(acc.tocBuilder, createTocEntry(h, s))])

\* The scan for the end of the existing list from the line after the anchor.
RECURSIVE ScanForList(_, _, _, _)
ScanForList(d, endingLine, startingLine, foundList) ==
    IF endingLine > Len(d) THEN startingLine
    ELSE LET trimmedLineText == TrimLeft(d[endingLine])
         IN  IF foundList
             THEN IF ~StartsWith(trimmedLineText, TOC_LIST_ITEM_BULLET) THEN endingLine
                  ELSE IF StartsWith(trimmedLineText, <<"#">>) THEN endingLine
                  ELSE ScanForList(d, endingLine + 1, startingLine, TRUE)
             ELSE IF StartsWith(trimmedLineText, TOC_LIST_ITEM_BULLET)
                  THEN ScanForList(d, endingLine + 1, startingLine, TRUE)
                  ELSE IF StartsWith(trimmedLineText, <<"#">>) THEN startingLine
                  ELSE ScanForList(d, endingLine + 1, startingLine, FALSE)

\* editor.getRange from the start of line from to the start of line to; a
\* position past the last line is the end of the document.
getLineRange(d, from, to) == SubSeq(d, from, to - 1)

\* The document with the lines from `from` up to `to` replaced by the text.
\* Past the last line the text is put at the end of the last line: its first
\* line break ends that line and its last one starts an empty line.
replaceLineRange(d, from, to, text) ==
    IF text = <<>> THEN Take(d, from - 1) \o Drop(d, to - 1)
    ELSE IF from > Len(d) THEN d \o Tail(text) \o << <<>> >>
    ELSE Take(d, from - 1) \o text \o Drop(d, to - 1)

\* What updateTableOfContents does to the document d.
RunToc(hs, d, s) ==
    LET loop == TocLoop(hs, 1, s, [tocHeading |-> 0, tocBuilder |-> << <<>> >>])
        startingLine == hs[loop.tocHeading].line + 1
        endingLine == ScanForList(d, startingLine, startingLine, FALSE)
        text == IF loop.tocBuilder = << <<>> >> THEN <<>> ELSE loop.tocBuilder
    IN  IF ~doesContentsHaveValue(s.contents) \/ loop.tocHeading = 0
        THEN [anchor |-> 0, from |-> 0, to |-> 0, text |-> <<>>, issued |-> FALSE]
        ELSE [anchor |-> hs[loop.tocHeading].line, from |-> startingLine,
              to |-> endingLine, text |-> text,
              issued |-> getLineRange(d, startingLine, endingLine) # text]

TocLines ==
    {<<"#", " ", "C">>, <<"#", "#", " ", "B", "^", "r">>, <<"-", " ", "o">>,
     <<"t">>, <<>>}

TocSettings ==
    [skipTopLevel : BOOLEAN, firstLevel : {1}, maxLevel : {1, 2},
     styleLevel1 : {"1"}, styleLevelOther : {"1"}, auto : {FALSE},
     separator : {<<".">>}, contents : {<<>>, <<"C">>}, startAt : {<<>>}]

InitToc ==
    /\ \E n \in 1..MaxLines : doc \in [1..n -> TocLines]
    /\ headings = MetadataHeadings(doc)
    /\ settings \in TocSettings
    /\ frontmatter = NoFrontMatter
    /\ log = <<>>

UpdateTableOfContents ==
    /\ Len(doc) <= MaxLines
    /\ LET run == RunToc(headings, doc, settings)
       IN  /\ doc' = IF run.issued
                     THEN replaceLineRange(doc, run.from, run.to, run.text)
                     ELSE doc
           /\ log' = Logged([op |-> "toc", before |-> doc, run |-> run,
                             first |-> log = <<>>])
    /\ headings' = MetadataHeadings(doc')
    /\ UNCHANGED <<settings, frontmatter>>

SpecToc == InitToc /\ [][UpdateTableOfContents]_vars

IsBulletLine(line) == StartsWith(TrimLeft(line), TOC_LIST_ITEM_BULLET)

IsHeadingLine(line) == StartsWith(TrimLeft(line), <<"#">>)

\* The first bullet line after the anchor with no heading line before it, 0
\* when there is none.
RECURSIVE ListStart(_, _)
ListStart(d, n) ==
    IF n > Len(d) THEN 0
    ELSE IF IsBulletLine(d[n]) THEN n
    ELSE IF IsHeadingLine(d[n]) THEN 0
    ELSE ListStart(d, n + 1)

\* The line after the last line of the run of bullet lines from n.
RECURSIVE ListEnd(_, _)
ListEnd(d, n) == IF n <= Len(d) /\ IsBulletLine(d[n]) THEN ListEnd(d, n + 1) ELSE n

\* C9: with an anchor, the replaced range ends where the run of bullet lines
\* after the anchor ends, also when the run ends the document, and holds
\* nothing but that run and blank lines before it; with no bullet line before
\* the next heading or the end, the range is empty at the line after the anchor.
C9_ReplacesExactlyTheList ==
    (log # <<>> /\ LastEntry.op = "toc" /\ LastEntry.run.anchor # 0)
    => LET d == LastEntry.before
           run == LastEntry.run
           start == ListStart(d, run.anchor + 1)
       IN  IF start = 0
           THEN run.from = run.anchor + 1 /\ run.to = run.from
           ELSE /\ run.to = ListEnd(d, start)
                /\ run.from <= start
                /\ \A n \in run.from..(start - 1) : Trim(d[n]) = <<>>

(***************************************************************************)
(* The compact front matter settings (src/src/frontMatter.ts).             *)
(***************************************************************************)
AUTO_PART_KEY == <<"a", "u", "t", "o">>

FIRST_LEVEL_PART_KEY == <<"f", "i", "r", "s", "t", "-", "l", "e", "v", "e", "l">>

MAX_LEVEL_PART_KEY == <<"m", "a", "x">>

CONTENTS_PART_KEY == <<"c", "o", "n", "t", "e", "n", "t", "s">>

START_AT_PART_KEY == <<"s", "t", "a", "r", "t", "-", "a", "t">>

NUMBER_HEADINGS_KEY == <<"n", "u", "m", "b", "e", "r", " ", "h", "e", "a", "d", "i", "n",
        "g", "s">>

FENCE == <<"-", "-", "-">>

\* The values of a parsed front matter entry.
Null == [kind |-> "null"]

StringValue(chars) == [kind |-> "string", chars |-> chars]

NumberValue(n) == [kind |-> "number", n |-> n]

\* String(entry)
ToJsString(v) ==
    IF v.kind = "string" THEN v.chars
    ELSE IF v.kind = "number" THEN NatToString(v.n)
    ELSE <<"n", "u", "l", "l">>

parseFrontMatterEntry(fm, key) ==
    IF key \in DOMAIN fm.entries THEN fm.entries[key] ELSE Null

\* The settings a directive is parsed onto.
DEFAULT_SETTINGS ==
    [skipTopLevel |-> FALSE, firstLevel |-> 1, maxLevel |-> 6,
     styleLevel1 |-> "1", styleLevelOther |-> "1", auto |-> FALSE,
     separator |-> <<>>, contents |-> <<>>, startAt |-> <<>>]

isValidFirstOrMaxLevel(n) == n \in 1..6

isValidFlag(v) == v.kind = "boolean"

isValidNumberingStyleString(chars) == chars \in {<<"1">>, <<"A">>}

isValidNumberingValueString(chars) ==
    \/ chars # <<>> /\ \A i \in DOMAIN chars : IsDigit(chars[i])
    \/ Len(chars) = 1 /\ IsUpper(chars[1])

isValidContents(chars) == TRUE

isValidSeparator(chars) == chars \in {<<>>, <<".">>, <<":">>, <<"-">>}

\* The format part: (_.)?(1|A).(1|A) and a separator.
updateSettingsFromFrontMatterFormatPart(part, s) ==
    LET skip == StartsWith(part, <<"_", ".">>)
        rest == IF skip THEN Drop(part, 2) ELSE part
        wellFormed == /\ Len(rest) >= 3
                      /\ isValidNumberingStyleString(<<rest[1]>>)
                      /\ rest[2] = "."
                      /\ isValidNumberingStyleString(<<rest[3]>>)
                      /\ isValidSeparator(Drop(rest, 3))
    IN  IF wellFormed
        THEN [s EXCEPT !.skipTopLevel = skip, !.styleLevel1 = rest[1],
                       !.styleLevelOther = rest[3], !.separator = Drop(rest, 3)]
        ELSE s

\* parseInt: the number of the leading digits, -1 for NaN.
RECURSIVE DigitsValue(_)
DigitsValue(ds) ==
    IF ds = <<>> THEN 0
    ELSE 10 * DigitsValue(Take(ds, Len(ds) - 1))
             + (CHOOSE v \in 0..9 : DigitChars[v + 1] = ds[Len(ds)])

parseInt(chars) ==
    LET t == TrimLeft(chars)
        e == RunEnd(t, 1, DigitSet)
    IN  IF e = 1 THEN -1 ELSE DigitsValue(Take(t, e - 1))

\* String.prototype.split(',')
RECURSIVE SplitOnComma(_)
SplitOnComma(chars) ==
    LET i == IndexOfChar(chars, ",", 1)
    IN  IF i = 0 THEN <<chars>>
        ELSE <<Take(chars, i - 1)>> \o SplitOnComma(Drop(chars, i))

\* One part of the directive, parsed onto the settings s.
ParsePart(s, part) ==
    LET trimmedPart == Trim(part)
    IN  IF Len(trimmedPart) = 0 THEN s
        ELSE IF trimmedPart = AUTO_PART_KEY THEN [s EXCEPT !.auto = TRUE]
        ELSE IF StartsWith(trimmedPart, FIRST_LEVEL_PART_KEY)
        THEN LET n == parseInt(Drop(trimmedPart, Len(FIRST_LEVEL_PART_KEY) + 1))
             IN  IF isValidFirstOrMaxLevel(n) THEN [s EXCEPT !.firstLevel = n] ELSE s
        ELSE IF StartsWith(trimmedPart, MAX_LEVEL_PART_KEY)
        THEN LET n == parseInt(Drop(trimmedPart, Len(MAX_LEVEL_PART_KEY) + 1))
             IN  IF isValidFirstOrMaxLevel(n) THEN [s EXCEPT !.maxLevel = n] ELSE s
        ELSE IF StartsWith(trimmedPart, START_AT_PART_KEY)
        THEN LET value == Drop(trimmedPart, Len(START_AT_PART_KEY) + 1)
             IN  IF isValidNumberingValueString(value)
                 THEN [s EXCEPT !.startAt = value] ELSE s
        ELSE IF StartsWith(trimmedPart, CONTENTS_PART_KEY)
        THEN IF Len(trimmedPart) <= Len(CONTENTS_PART_KEY) + 1 THEN s
             ELSE LET tocHeading == Drop(trimmedPart, Len(CONTENTS_PART_KEY) + 1)
                  IN  IF isValidContents(tocHeading)
                      THEN [s EXCEPT !.contents = tocHeading] ELSE s
        ELSE updateSettingsFromFrontMatterFormatPart(trimmedPart, s)

RECURSIVE ParseParts(_, _)
ParseParts(s, parts) ==
    IF parts = <<>> THEN s ELSE ParseParts(ParsePart(s, Head(parts)), Tail(parts))

\* The settings of the 'number headings' entry, Null without a (truthy) entry.
parseCompactFrontMatterSettings(fm) ==
    LET entry == parseFrontMatterEntry(fm, NUMBER_HEADINGS_KEY)
    IN  IF entry = Null \/ (entry.kind = "string" /\ entry.chars = <<>>) THEN Null
        ELSE ParseParts(DEFAULT_SETTINGS, SplitOnComma(ToJsString(entry)))

LEGACY_SKIP_KEYS ==
    <<<<"n", "u", "m", "b", "e", "r", "-", "h", "e", "a", "d", "i", "n", "g", "s", "-", "s",
            "k", "i", "p", "-", "t", "o", "p", "-", "l", "e", "v", "e", "l">>, <<"h", "e",
            "a", "d", "e", "r", "-", "n", "u", "m", "b", "e", "r", "i", "n", "g", "-", "s",
            "k", "i", "p", "-", "t", "o", "p", "-", "l", "e", "v", "e", "l">>>>

LEGACY_MAX_KEYS ==
    <<<<"n", "u", "m", "b", "e", "r", "-", "h", "e", "a", "d", "i", "n", "g", "s", "-", "m",
            "a", "x", "-", "l", "e", "v", "e", "l">>, <<"h", "e", "a", "d", "e", "r", "-",
            "n", "u", "m", "b", "e", "r", "i", "n", "g", "-", "m", "a", "x", "-", "l", "e",
            "v", "e", "l">>>>

LEGACY_STYLE1_KEYS ==
    <<<<"n", "u", "m", "b", "e", "r", "-", "h", "e", "a", "d", "i", "n", "g", "s", "-", "s",
            "t", "y", "l", "e", "-", "l", "e", "v", "e", "l", "-", "1">>, <<"h", "e", "a",
            "d", "e", "r", "-", "n", "u", "m", "b", "e", "r", "i", "n", "g", "-", "s", "t",
            "y", "l", "e", "-", "l", "e", "v", "e", "l", "-", "1">>>>

LEGACY_STYLE_OTHER_KEYS ==
    <<<<"n", "u", "m", "b", "e", "r", "-", "h", "e", "a", "d", "i", "n", "g", "s", "-", "s",
            "t", "y", "l", "e", "-", "l", "e", "v", "e", "l", "-", "o", "t", "h", "e", "r">>,
            <<"h", "e", "a", "d", "e", "r", "-", "n", "u", "m", "b", "e", "r", "i", "n", "g",
            "-", "s", "t", "y", "l", "e", "-", "l", "e", "v", "e", "l", "-", "o", "t", "h",
            "e", "r">>>>

LEGACY_AUTO_KEYS ==
    <<<<"n", "u", "m", "b", "e", "r", "-", "h", "e", "a", "d", "i", "n", "g", "s", "-", "a",
            "u", "t", "o">>, <<"h", "e", "a", "d", "e", "r", "-", "n", "u", "m", "b", "e",
            "r", "i", "n", "g", "-", "a", "u", "t", "o">>>>

\* parseFrontMatterEntry(fm, a) ?? parseFrontMatterEntry(fm, b)
EitherEntry(fm, keys) ==
    IF parseFrontMatterEntry(fm, keys[1]) # Null
    THEN parseFrontMatterEntry(fm, keys[1])
    ELSE parseFrontMatterEntry(fm, keys[2])

getFrontMatterSettingsOrAlternative(fm, alternativeSettings) ==
    IF ~fm.present THEN alternativeSettings
    ELSE IF parseCompactFrontMatterSettings(fm) # Null
    THEN parseCompactFrontMatterSettings(fm)
    ELSE LET skipEntry == EitherEntry(fm, LEGACY_SKIP_KEYS)
             maxEntry == EitherEntry(fm, LEGACY_MAX_KEYS)
             style1 == ToJsString(EitherEntry(fm, LEGACY_STYLE1_KEYS))
             styleOther == ToJsString(EitherEntry(fm, LEGACY_STYLE_OTHER_KEYS))
             autoEntry == EitherEntry(fm, LEGACY_AUTO_KEYS)
         IN  [alternativeSettings EXCEPT
                 !.skipTopLevel = IF isValidFlag(skipEntry) THEN skipEntry.b ELSE @,
                 !.maxLevel = IF maxEntry.kind = "number" /\ isValidFirstOrMaxLevel(maxEntry.n)
                              THEN maxEntry.n ELSE @,
                 !.styleLevel1 = IF isValidNumberingStyleString(style1)
                                 THEN style1[1] ELSE @,
                 !.styleLevelOther = IF isValidNumberingStyleString(styleOther)
                                     THEN styleOther[1] ELSE @,
                 !.auto = IF isValidFlag(autoEntry) THEN autoEntry.b ELSE @]

settingsToCompactFrontMatterValue(s) ==
    LET autoPart == IF s.auto THEN <<"a", "u", "t", "o", ",", " ">> ELSE <<>>
        firstLevelPart == <<"f", "i", "r", "s", "t", "-", "l", "e", "v", "e", "l",
                " ">> \o NatToString(s.firstLevel) \o <<",", " ">>
        maxPart == <<"m", "a", "x", " ">> \o NatToString(s.maxLevel) \o <<",", " ">>
        contentsPart == IF Len(s.contents) > 0
                        THEN <<"c", "o", "n", "t", "e", "n", "t", "s",
                                " ">> \o s.contents \o <<",", " ">> ELSE <<>>
        skipTopLevelString == IF s.skipTopLevel THEN <<"_", ".">> ELSE <<>>
        stylePart == skipTopLevelString \o <<s.styleLevel1, ".", s.styleLevelOther>>
                         \o s.separator
        startAtPart == IF s.startAt # <<>>
                       THEN <<"s", "t", "a", "r", "t", "-", "a", "t",
                               " ">> \o s.startAt \o <<",", " ">> ELSE <<>>
    IN  autoPart \o firstLevelPart \o maxPart \o contentsPart \o startAtPart \o stylePart

\* The first line from afterLine and before the last line that starts with
\* the search text, 0 for undefined.
RECURSIVE findLineWhichStartsWith(_, _, _)
findLineWhichStartsWith(d, search, i) ==
    IF i >= Len(d) THEN 0
    ELSE IF StartsWith(d[i], search) THEN i
    ELSE findLineWhichStartsWith(d, search, i + 1)

(***************************************************************************)
(* The metadata cache of the front matter block and saveSettingsToFrontMatter. *)
(***************************************************************************)
\* The value of a front matter line after its key: a number, a flag, or text.
ScalarValue(chars) ==
    IF chars = <<>> THEN Null
    ELSE IF \A i \in DOMAIN chars : IsDigit(chars[i]) THEN NumberValue(DigitsValue(chars))
    ELSE IF chars = <<"t", "r", "u", "e">> THEN [kind |-> "boolean", b |-> TRUE]
    ELSE IF chars = <<"f", "a", "l", "s", "e">> THEN [kind |-> "boolean", b |-> FALSE]
    ELSE StringValue(chars)

\* The closing fence of a block that opens on line 1, 0 for none.
RECURSIVE ClosingFence(_, _)
ClosingFence(d, i) ==
    IF i > Len(d) THEN 0 ELSE IF d[i] = FENCE THEN i ELSE ClosingFence(d, i + 1)

\* CachedMetadata.frontmatter: its start line and its entries by key.
FrontMatterCache(d) ==
    LET close == IF d[1] = FENCE THEN ClosingFence(d, 2) ELSE 0
        keyed == {i \in 2..(close - 1) : IndexOfChar(d[i], ":", 1) > 1}
        KeyOf(i) == Take(d[i], IndexOfChar(d[i], ":", 1) - 1)
    IN  IF close = 0 THEN NoFrontMatter
        ELSE [present |-> TRUE, line |-> 1,
              entries |-> [k \in {KeyOf(i) : i \in keyed} |->
                              LET i == CHOOSE j \in keyed : KeyOf(j) = k
                              IN  ScalarValue(Trim(Drop(d[i], Len(k) + 1)))]]

\* What saveSettingsToFrontMatter does to the document d: the replacement it
\* issues (the lines of its text and of the range it replaces) or the error it
\* throws.
RunSave(fm, d, s) ==
    LET frontMatterAdditions ==
            NUMBER_HEADINGS_KEY \o <<":", " ">> \o settingsToCompactFrontMatterValue(s)
        keyLine == findLineWhichStartsWith(d, NUMBER_HEADINGS_KEY, fm.line)
    IN  IF fm.present
        THEN IF NUMBER_HEADINGS_KEY \in DOMAIN fm.entries
             THEN IF keyLine = 0
                  THEN [threw |-> TRUE, from |-> 0, to |-> 0, text |-> <<>>]
                  ELSE [threw |-> FALSE, from |-> keyLine, to |-> keyLine + 1,
                        text |-> <<frontMatterAdditions>>]
             ELSE [threw |-> FALSE, from |-> fm.line + 1, to |-> fm.line + 1,
                   text |-> <<frontMatterAdditions>>]
        ELSE [threw |-> FALSE, from |-> 1, to |-> 1,
              text |-> <<FENCE, frontMatterAdditions, FENCE, <<>>>>]

FrontMatterSettings ==
    [skipTopLevel : BOOLEAN, firstLevel : {1, 2}, maxLevel : {4, 6},
     styleLevel1 : Styles, styleLevelOther : Styles, auto : BOOLEAN,
     separator : {<<>>, <<".">>, <<":">>, <<"-">>},
     contents : {<<>>, <<"T">>, <<"T", ",", "c">>}, startAt : {<<>>, <<"2">>}]

FrontMatterDocuments ==
    {<<<<"t">>>>,
     <<FENCE, FENCE, <<"t">>>>,
     <<FENCE, <<"n", "u", "m", "b", "e", "r", "-", "h", "e", "a", "d", "i", "n", "g", "s",
             "-", "m", "a", "x", "-", "l", "e", "v", "e", "l", ":", " ", "3">>, FENCE,
             <<"t">>>>,
     <<FENCE, <<"n", "u", "m", "b", "e", "r", " ", "h", "e", "a", "d", "i", "n", "g", "s",
             ":", " ", "a", "u", "t", "o", ",", " ", "m", "a", "x", " ", "9", ",", " ", "_",
             ".", "A", ".", "1", ":">>, FENCE, <<"t">>>>}

InitFrontMatter ==
    /\ doc \in FrontMatterDocuments
    /\ headings = <<>>
    /\ settings \in FrontMatterSettings
    /\ frontmatter = FrontMatterCache(doc)
    /\ log = <<>>

SaveSettingsToFrontMatter ==
    /\ LET run == RunSave(frontmatter, doc, settings)
       IN  /\ doc' = IF run.threw THEN doc
                     ELSE Take(doc, run.from - 1) \o run.text \o Drop(doc, run.to - 1)
           /\ log' = Logged([op |-> "save", before |-> doc, run |-> run,
                             first |-> log = <<>>])
    /\ frontmatter' = FrontMatterCache(doc')
    /\ UNCHANGED <<headings, settings>>

GetFrontMatterSettings ==
    /\ log' = Logged([op |-> "load", before |-> doc, first |-> log = <<>>,
                      run |-> getFrontMatterSettingsOrAlternative(frontmatter, settings)])
    /\ UNCHANGED <<doc, headings, settings, frontmatter>>

NextFrontMatter == SaveSettingsToFrontMatter \/ GetFrontMatterSettings

SpecFrontMatter == InitFrontMatter /\ [][NextFrontMatter]_vars

\* C5: no operation issues a replacement whose text is the text already in the
\* replaced range.
C5_NoNoOpReplacement ==
    log # <<>>
    => IF LastEntry.op \in {"update", "remove"}
       THEN \A k \in DOMAIN LastEntry.applied :
               LastEntry.applied[k].text #
                   getRange(LastEntry.before, LastEntry.applied[k].line,
                            LastEntry.applied[k].toCh)
       ELSE IF LastEntry.op = "toc"
       THEN LastEntry.run.issued
            => LastEntry.run.text #
                   getLineRange(LastEntry.before, LastEntry.run.from, LastEntry.run.to)
       ELSE IF LastEntry.op = "save"
       THEN ~LastEntry.run.threw
            => LastEntry.run.text #
                   getLineRange(LastEntry.before, LastEntry.run.from, LastEntry.run.to)
       ELSE TRUE

\* C7: the settings read back from the front matter that saveSettingsToFrontMatter
\* wrote are the settings that were saved.
C7_DirectiveRoundTrip ==
    (/\ Len(log) > 1
     /\ log[1].op = "save"
     /\ ~log[1].run.threw
     /\ log[Len(log)].op = "load")
    => log[Len(log)].run = settings

====
